---------------------------- MODULE Spec2Model ----------------------------
(***************************************************************************)
(* The particle shuffling layer of deltafs-vpic-preload                    *)
(* (src/src/preload_shuffle.cc, with the preload context declared in       *)
(* src/unnamed/part_000).                                                  *)
(*                                                                         *)
(* Ranks 0..world_sz-1 each hold a shuffle context (sctx) built by         *)
(* shuffle_init.  A caller thread per rank submits records with            *)
(* shuffle_write and drives the epoch transitions; backend progress        *)
(* threads move frames and run the delivery callback shuffle_handle.       *)
(* The two backends (nn_shuffler, xn_shuffler), the sink entries           *)
(* (native_write, exotic_write) and the caller of the epoch functions are  *)
(* not part of the sources at hand; they are modelled from the             *)
(* specification text and marked as such where they are defined.           *)
(***************************************************************************)
EXTENDS Integers, Sequences, FiniteSets, Bags, TLC

(***************************************************************************)
(* Bounds of the model.                                                    *)
(***************************************************************************)
MaxWorld == 2        \* largest world size of the protocol specification
MaxWrites == 2       \* shuffle_write calls in one behaviour (all ranks)
MaxQueue == 1        \* capacity of a rank's outbound queue
MaxEpoch == 1        \* epochs are 0..MaxEpoch
MaxByte == 2         \* identifier bytes are 1..MaxByte
MaxData == 1         \* payload bytes are 1..MaxData
MaxRouteWorld == 4   \* largest world size of the routing specification
MaxRouted == 2       \* shuffle_target calls recorded by the routing spec.
MaxCalls == 2        \* calls of its monitor callback by each thread
MaxFinWorld == 3     \* largest world size of the teardown specification
MaxFinCalls == 2     \* shuffle_finalize calls by each rank
MaxLocalSize == 3    \* largest node-local communicator of the uri specification
MaxPortSpan == 3     \* the configured max_port is at most min_port + MaxPortSpan

(***************************************************************************)
(* Program constants.                                                      *)
(***************************************************************************)
MAX_RADIX == 8           \* if (n > 8) n = 8
BUF_SIZE == 255          \* char buf[255]; the frame size ceiling

EOF == -1                \* the sink's failure status
MAX_PORT == 65535        \* if (max_port > 65535) ABORT("bad max port")
NoEnv == <<>>            \* maybe_getenv() found nothing; a value n is <<n>>
None == "none"

Bytes == 1..MaxByte

(***************************************************************************)
(* Machine arithmetic.                                                     *)
(***************************************************************************)
RECURSIVE Pow2(_)
Pow2(n) == IF n = 0 THEN 1 ELSE 2 * Pow2(n - 1)

\* bitwise and of two non-negative integers
RECURSIVE BitAnd(_, _)
BitAnd(x, y) ==
  IF x = 0 \/ y = 0 THEN 0
  ELSE (x % 2) * (y % 2) + 2 * BitAnd(x \div 2, y \div 2)

\* An unsigned int is kept as its two 16-bit halves.
U32(x) == [hi |-> (x \div Pow2(16)) % Pow2(16), lo |-> x % Pow2(16)]

\* ~static_cast<unsigned int>(0)
UINT_MAX == [hi |-> Pow2(16) - 1, lo |-> Pow2(16) - 1]

\* x <<= n on an unsigned int
RECURSIVE Shl32(_, _)
Shl32(w, n) ==
  IF n = 0 THEN w
  ELSE Shl32([hi |-> (w.hi * 2 + w.lo \div Pow2(15)) % Pow2(16),
              lo |-> (w.lo * 2) % Pow2(16)], n - 1)

\* x & y on unsigned ints
And32(a, b) == [hi |-> BitAnd(a.hi, b.hi), lo |-> BitAnd(a.lo, b.lo)]

\* int & unsigned int, converted back to int: the int operand is never
\* negative here, so neither is the result
IntAndMask(x, mask) ==
  LET w == And32(U32(x), mask) IN w.hi * Pow2(16) + w.lo

\* arithmetic on an unsigned char
UChar(x) == x % 256

(***************************************************************************)
(* The hash and placement libraries.  They are deterministic functions of  *)
(* the bytes (and seed) they are given; the model fixes small ones.  Each  *)
(* reads exactly the first len bytes of buf.                               *)
(***************************************************************************)
RECURSIVE HashBytes(_, _, _, _)
HashBytes(buf, len, mul, acc) ==
  IF len = 0 THEN acc
  ELSE HashBytes(Tail(buf), len - 1, mul, (acc * mul + Head(buf)) % 251)

xxhash32(buf, len, seed) == HashBytes(buf, len, 31, seed + 7)

xxhash64(buf, len, seed) == HashBytes(buf, len, 17, seed + 3)

\* ch_placement_initialize(proto, n, vf, seed): the engine is its arguments
ch_placement_initialize(proto, n, vf, seed) ==
  [proto |-> proto, n |-> n, vf |-> vf, seed |-> seed]

\* ctx->chp == NULL: no placement instance
NullChp == [proto |-> None, n |-> 0, vf |-> 0, seed |-> 0]

\* ch_placement_find_closest(chp, key, 1, &target): one rank of 0..n-1
ch_placement_find_closest(chp, key) ==
  IF chp.proto = "static_modulo" THEN key % chp.n
  ELSE (key * 5 + chp.vf + chp.seed) % chp.n

(***************************************************************************)
(* State.                                                                  *)
(***************************************************************************)
VARIABLES
  env,      \* the job's configuration: the MPI world, pctx's mode, sizes and
            \* barrier flags, the SHUFFLE_* environment, nnctx.force_sync,
            \* and whether the build defines NDEBUG
  sctx,     \* sctx[r]: pctx.sctx of rank r, as shuffle_init left it
  pc,       \* pc[r]: where the caller thread of rank r is
  epoch,    \* epoch[r]: the epoch the caller of rank r passes to shuffle_write
  pend,     \* pend[r]: the frame a shuffle_write of rank r is enqueueing
            \* (a set: empty, or that frame)
  outq,     \* outq[r]: the backend's outbound queue of rank r
  net,      \* frames in transit between ranks
  replies,  \* NN: rpc replies in transit back to the sender
  sink,     \* sink[r]: the bag of native_write/exotic_write calls at rank r
  mctx,     \* mctx[r]: pctx.mctx, the monitor counters of rank r
  xnlive,   \* xnlive[r]: XN: the overlay's own running send/recv counters
  rep,      \* rep[r]: XN: rep->stat and rep->last_stat
  wlog,     \* history: the shuffle_write calls that have returned
  nwrites,  \* nwrites[r]: shuffle_write calls started on rank r
  routed,   \* history of the routing specification: shuffle_target calls
  thr,      \* thr[t]: the thread t of one rank inside a monitor callback:
            \* calls it has completed, its position in the callback, the
            \* value it loaded for the ++ it is executing, and (history)
            \* whether it has stored while another thread was between the
            \* load and the store of a ++
  fin,      \* fin[r]: shuffle_finalize on rank r: the calls started and
            \* returned, what is left of the running call, whether the rank
            \* is inside a collective reduction, and (history) the teardown
            \* steps it has made
  uri       \* shuffle_prepare_uri on the ranks of one node: the configured
            \* port range, the size of the node-local communicator, and
            \* for each local rank the ports it probed, what the call
            \* came to, and (history) what bind and getsockname gave it

vars == <<env, sctx, pc, epoch, pend, outq, net, replies, sink, mctx,
          xnlive, rep, wlog, nwrites, routed, thr, fin, uri>>

Ranks == 0..(env.comm_sz - 1)

(***************************************************************************)
(* shuffle_init and the receiver subset.                                   *)
(***************************************************************************)
\* atoi() of an environment value <<n>>
atoi(s) == s[1]

\* TOUCHAR: assert(input >= 0 && input <= 255), then the cast
TOUCHAR(input) == UChar(input)

\* a receiver test that compares with zero instead of with the rank
shuffle_is_rank_receiver_nonzero(ctx, rank) ==
  IF ctx.receiver_rate = 1 THEN TRUE
  ELSE IntAndMask(rank, ctx.receiver_mask) # 0

\* shuffle_is_rank_receiver(ctx, rank)
shuffle_is_rank_receiver(ctx, rank) ==
  IF ctx.receiver_rate = 1 THEN TRUE
  ELSE IntAndMask(rank, ctx.receiver_mask) = rank

\* shuffle_is_everyone_receiver(ctx)
shuffle_is_everyone_receiver(ctx) == ctx.receiver_rate = 1

\* a shuffle_init that does not clamp the radix to 8
EffectiveRadixNoClamp(e) ==
  IF e.Recv_radix = NoEnv THEN 0
  ELSE IF atoi(e.Recv_radix) > 0 THEN atoi(e.Recv_radix) ELSE 0

\* the radix shuffle_init applies: n = atoi(env); if (n > 8) n = 8; and the
\* shifts are made only if (n > 0)
EffectiveRadix(e) ==
  IF e.Recv_radix = NoEnv THEN 0
  ELSE LET n0 == atoi(e.Recv_radix)
           n  == IF n0 > MAX_RADIX THEN MAX_RADIX ELSE n0
       IN  IF n > 0 THEN n ELSE 0

\* a size check that also rejects the frame that fills the buffer exactly
InitSizeCheckStrict(fname_len, data_len, extra_data_len) ==
  IF extra_data_len + data_len >= BUF_SIZE - fname_len - 1
    THEN "bad shuffle conf: id + data exceeds 255 bytes"
  ELSE IF fname_len = 0 THEN "bad shuffle conf: id size is zero"
  ELSE None

\* the two ABORT()s that open shuffle_init; None if neither is taken
InitSizeCheck(fname_len, data_len, extra_data_len) ==
  IF extra_data_len + data_len > BUF_SIZE - fname_len - 1
    THEN "bad shuffle conf: id + data exceeds 255 bytes"
  ELSE IF fname_len = 0 THEN "bad shuffle conf: id size is zero"
  ELSE None

\* shuffle_init(ctx) on rank my_rank under configuration e.  The result is
\* the context; abort names the ABORT() taken, if any.
shuffle_init(e, my_rank) ==
  LET fname_len      == TOUCHAR(e.particle_id_size)
      extra_data_len == TOUCHAR(e.particle_extra_size)
      data_len       == IF e.sideio THEN 8 ELSE TOUCHAR(e.particle_size)
      abort == InitSizeCheck(fname_len, data_len, extra_data_len)
      n    == EffectiveRadix(e)
      rate == Shl32(U32(1), n).lo
      mask == Shl32(UINT_MAX, n)
      type == IF abort # None THEN None
              ELSE IF e.Use_multihop THEN "XN" ELSE "NN"
      ctx0 == [fname_len |-> fname_len, extra_data_len |-> extra_data_len,
               data_len |-> data_len, receiver_rate |-> rate,
               receiver_mask |-> mask, is_receiver |-> FALSE,
               force_rpc |-> e.Force_rpc, type |-> type,
               rep |-> IF type = "XN" THEN "xn_ctx" ELSE None,
               chp |-> IF abort # None \/ e.mode_bypass THEN NullChp
                       ELSE ch_placement_initialize(e.Placement_protocol,
                                                    e.comm_sz,
                                                    e.Virtual_factor, 0),
               abort |-> abort,
               \* how far shuffle_init got: an ABORT in the size checks
               \* leaves the backend and the placement engine untouched
               backend_up |-> abort = None,
               placement_up |-> abort = None /\ ~e.mode_bypass]
  IN  [ctx0 EXCEPT !.is_receiver = shuffle_is_rank_receiver(ctx0, my_rank)]

\* shuffle_world_sz(ctx): both backends report the size of the MPI world
shuffle_world_sz(ctx) == env.comm_sz

\* shuffle_rank(ctx) of the context of rank r: its rank in the MPI world
shuffle_rank(r) == r

(***************************************************************************)
(* Placement.                                                              *)
(***************************************************************************)
\* a placement that hashes the whole frame, payload and padding included
RawTargetWholeFrame(ctx, r, buf) ==
  IF shuffle_world_sz(ctx) # 1
    THEN IF env.mode_bypass
           THEN xxhash32(buf, Len(buf), 0) % shuffle_world_sz(ctx)
           ELSE ch_placement_find_closest(ctx.chp, xxhash64(buf, Len(buf), 0))
    ELSE shuffle_rank(r)

\* a placement whose modulo is off by one
RawTargetOffByOne(ctx, r, buf) ==
  IF shuffle_world_sz(ctx) # 1
    THEN xxhash32(buf, ctx.fname_len, 0) % (shuffle_world_sz(ctx) + 1)
    ELSE shuffle_rank(r)

\* the rank shuffle_target computes before it applies the receiver mask
RawTarget(ctx, r, buf) ==
  IF shuffle_world_sz(ctx) # 1
    THEN IF env.mode_bypass
           THEN xxhash32(buf, ctx.fname_len, 0) % shuffle_world_sz(ctx)
           ELSE ch_placement_find_closest(ctx.chp,
                                          xxhash64(buf, ctx.fname_len, 0))
    ELSE shuffle_rank(r)

\* a shuffle_target that forgets the receiver mask
shuffle_target_unmasked(ctx, r, buf) == RawTarget(ctx, r, buf)

\* shuffle_target(ctx, buf, buf_sz), called on rank r
shuffle_target(ctx, r, buf) ==
  IntAndMask(RawTarget(ctx, r, buf), ctx.receiver_mask)

\* the frame shuffle_write assembles: [fname][0][data][zero-filled extra]
Zeros(n) == [i \in 1..n |-> 0]

\* a frame without the terminator after the identifier
FrameNoTerminator(ctx, fname, fname_len, data, data_len) ==
  SubSeq(fname, 1, fname_len) \o SubSeq(data, 1, data_len)
    \o Zeros(1 + ctx.extra_data_len)

Frame(ctx, fname, fname_len, data, data_len) ==
  LET base_sz == UChar(1 + fname_len + data_len)
      buf_sz  == UChar(base_sz + ctx.extra_data_len)
  IN  SubSeq(fname, 1, fname_len) \o <<0>> \o SubSeq(data, 1, data_len)
        \o (IF buf_sz # base_sz THEN Zeros(buf_sz - base_sz) ELSE <<>>)

(***************************************************************************)
(* The sink (preload.h, declared in part_000): native_write performs a     *)
(* direct local write, exotic_write a write on behalf of a remote rank.    *)
(* Each returns 0 or EOF; a call is recorded in the bag of its rank.       *)
(***************************************************************************)
SinkCall(kind, fname, data, ep, uid, rv) ==
  [kind |-> kind, fname |-> fname, data |-> data, epoch |-> ep, uid |-> uid,
   rv |-> rv]

native_write(s, r, fname, fname_len, data, data_len, ep, uid, rv) ==
  [s EXCEPT ![r] = @ (+) SetToBag({SinkCall("native", SubSeq(fname, 1, fname_len),
                                            SubSeq(data, 1, data_len), ep,
                                            uid, rv)})]

exotic_write(s, r, fname, fname_len, data, data_len, ep, uid, rv) ==
  [s EXCEPT ![r] = @ (+) SetToBag({SinkCall("exotic", SubSeq(fname, 1, fname_len),
                                            SubSeq(data, 1, data_len), ep,
                                            uid, rv)})]

(***************************************************************************)
(* The monitor callbacks of the NN backend.                                *)
(***************************************************************************)
\* shuffle_msg_sent(n, arg1, arg2)
shuffle_msg_sent(m) ==
  [m EXCEPT !.min_nms = @ + 1, !.max_nms = @ + 1, !.nms = @ + 1]

\* shuffle_msg_replied(arg1, arg2)
shuffle_msg_replied(m) == [m EXCEPT !.nmd = @ + 1]

\* a shuffle_msg_received that forgets nmr++
shuffle_msg_received_lost(m) ==
  [m EXCEPT !.min_nmr = @ + 1, !.max_nmr = @ + 1]

\* shuffle_msg_received()
shuffle_msg_received(m) ==
  [m EXCEPT !.min_nmr = @ + 1, !.max_nmr = @ + 1, !.nmr = @ + 1]

ZeroMctx ==
  [nms |-> 0, min_nms |-> 0, max_nms |-> 0, nmr |-> 0, min_nmr |-> 0,
   max_nmr |-> 0, nmd |-> 0, nlms |-> 0, min_nlms |-> 0, max_nlms |-> 0,
   nlmr |-> 0, min_nlmr |-> 0, max_nlmr |-> 0, nlmd |-> 0]

ZeroStat == [local  |-> [sends |-> 0, recvs |-> 0],
             remote |-> [sends |-> 0, recvs |-> 0]]

(***************************************************************************)
(* Frames in the backends.                                                 *)
(***************************************************************************)
\* the frame of write number k of rank src; at: the rank it is queued at or
\* travelling to; hop: "rpc" (NN), "local" or "remote" (XN)
Msg(src, k, dst, ep, buf) ==
  [uid |-> <<src, k>>, src |-> src, dst |-> dst, epoch |-> ep, buf |-> buf,
   at |-> src, hop |-> "rpc", rv |-> 0]

SeqToSet(q) == {q[i] : i \in 1..Len(q)}

RECURSIVE SumOver(_, _)
SumOver(f, S) ==
  IF S = {} THEN 0
  ELSE LET x == CHOOSE y \in S : TRUE IN f[x] + SumOver(f, S \ {x})

Queued == UNION {SeqToSet(outq[r]) : r \in Ranks}

Pending == UNION {pend[r] : r \in Ranks}

\* frames submitted to a backend and not yet handed to shuffle_handle
Undelivered == Pending \cup Queued \cup net

\* frames of rank r whose rpc has been sent and whose reply has not arrived
Outstanding(r) == {f \in net \cup replies : f.src = r}

(***************************************************************************)
(* shuffle_write.                                                          *)
(***************************************************************************)
\* a bypass test that forgets peer_rank == rank
IsBypassAnyPeer(ctx, peer_rank, rank) == ~ctx.force_rpc

\* a bypass test that forgets force_rpc
IsBypassIgnoreForce(ctx, peer_rank, rank) == peer_rank = rank

\* if (peer_rank == rank && !ctx->force_rpc): the record bypasses the rpc
IsBypass(ctx, peer_rank, rank) == peer_rank = rank /\ ~ctx.force_rpc

\* a bypass that calls the foreign-write entry
BypassWriteExotic(s, r, fname, fname_len, data, data_len, ep, uid, rv) ==
  exotic_write(s, r, fname, fname_len, data, data_len, ep, uid, rv)

\* the sink entry the bypass calls: rv = native_write(fname, fname_len, data,
\* data_len, epoch)
BypassWrite(s, r, fname, fname_len, data, data_len, ep, uid, rv) ==
  native_write(s, r, fname, fname_len, data, data_len, ep, uid, rv)

WriteRec(f, fname, data, rv, path, blocked) ==
  [uid |-> f.uid, src |-> f.src, fname |-> fname, data |-> data,
   epoch |-> f.epoch, dst |-> f.dst, buf |-> f.buf, rv |-> rv, path |-> path,
   blocked |-> blocked]

\* assert(ctx->extra_data_len + ctx->data_len < 255 - ctx->fname_len - 1);
\* the assertion is compiled only when NDEBUG is not defined
WriteAssertOk(ctx) ==
  ctx.extra_data_len + ctx.data_len < BUF_SIZE - ctx.fname_len - 1

\* a length check that forgets the payload length
WriteLenCheckNameOnly(ctx, fname_len, data_len) ==
  IF ctx.fname_len # fname_len THEN "bad filename len" ELSE None

\* if (ctx->fname_len != fname_len) ABORT("bad filename len");
\* if (ctx->data_len != data_len) ABORT("bad data len");
WriteLenCheck(ctx, fname_len, data_len) ==
  IF ctx.fname_len # fname_len THEN "bad filename len"
  ELSE IF ctx.data_len # data_len THEN "bad data len"
  ELSE None

\* shuffle_write(ctx, fname, fname_len, data, data_len, epoch) on rank r, up
\* to its return, or to the point where the backend's enqueue blocks on a
\* full queue; srv is the status the sink returns if it is called
shuffle_write(r, fname, data, srv) ==
  LET ctx       == sctx[r]
      fname_len == Len(fname)
      data_len  == Len(data)
      buf       == Frame(ctx, fname, fname_len, data, data_len)
      peer_rank == shuffle_target(ctx, r, buf)
      rank      == shuffle_rank(r)
      f         == Msg(r, nwrites[r], peer_rank, epoch[r], buf)
  IN  /\ pc[r] = "write"
      /\ SumOver(nwrites, Ranks) < MaxWrites
      /\ nwrites' = [nwrites EXCEPT ![r] = @ + 1]
      /\ IF ~env.ndebug /\ ~WriteAssertOk(ctx)
           THEN \* assert
                /\ pc' = [pc EXCEPT ![r] = "abort: assert"]
                /\ UNCHANGED <<sink, wlog, pend, outq>>
         ELSE IF WriteLenCheck(ctx, fname_len, data_len) # None
           THEN /\ pc' = [pc EXCEPT ![r] =
                             "abort: " \o WriteLenCheck(ctx, fname_len,
                                                       data_len)]
                /\ UNCHANGED <<sink, wlog, pend, outq>>
         ELSE IF IsBypass(ctx, peer_rank, rank)
           THEN /\ sink' = BypassWrite(sink, r, fname, fname_len, data,
                                       data_len, epoch[r], f.uid, srv)
                /\ wlog' = wlog \cup {WriteRec(f, fname, data, srv, "bypass",
                                               FALSE)}
                /\ UNCHANGED <<pc, pend, outq>>
         ELSE \* xn_shuffler_enqueue / nn_shuffler_enqueue, then return 0;
              \* the call blocks while the outbound queue is full
              /\ srv = 0
              /\ IF Len(outq[r]) < MaxQueue
                   THEN /\ outq' = [outq EXCEPT ![r] = Append(@, f)]
                        /\ wlog' = wlog \cup {WriteRec(f, fname, data, 0,
                                                       "rpc", FALSE)}
                        /\ UNCHANGED <<pc, pend>>
                   ELSE /\ pend' = [pend EXCEPT ![r] = {f}]
                        /\ pc' = [pc EXCEPT ![r] = "enqueue"]
                        /\ UNCHANGED <<outq, wlog>>
              /\ UNCHANGED sink
      /\ UNCHANGED <<uri, fin, thr, env, sctx, epoch, net, replies, mctx, xnlive, rep,
                     routed>>

\* a blocked nn_shuffler_enqueue / xn_shuffler_enqueue finds room: the frame
\* is queued and shuffle_write returns 0
shuffler_enqueue(r) ==
  /\ pc[r] = "enqueue"
  /\ Len(outq[r]) < MaxQueue
  /\ LET f   == CHOOSE x \in pend[r] : TRUE
         ctx == sctx[r]
     IN  /\ outq' = [outq EXCEPT ![r] = Append(@, f)]
         /\ wlog' = wlog \cup
              {WriteRec(f, SubSeq(f.buf, 1, ctx.fname_len),
                        SubSeq(f.buf, ctx.fname_len + 2,
                               ctx.fname_len + 1 + ctx.data_len),
                        0, "rpc", TRUE)}
  /\ pend' = [pend EXCEPT ![r] = {}]
  /\ pc' = [pc EXCEPT ![r] = "write"]
  /\ UNCHANGED <<uri, fin, thr, env, sctx, epoch, net, replies, sink, mctx, xnlive, rep,
                 nwrites, routed>>

(***************************************************************************)
(* shuffle_handle: the delivery callback the backends run at the           *)
(* destination.                                                            *)
(***************************************************************************)
\* a size check that lets longer frames through
HandleSizeOkAtLeast(ctx, buf_sz) ==
  buf_sz >= ctx.extra_data_len + ctx.data_len + ctx.fname_len + 1

\* the size check of shuffle_handle
HandleSizeOk(ctx, buf_sz) ==
  buf_sz = ctx.extra_data_len + ctx.data_len + ctx.fname_len + 1

\* a shuffle_handle that takes the payload from buf + fname_len
shuffle_handle_shifted(s, f, rv) ==
  LET ctx == sctx[f.dst]
  IN  exotic_write(s, f.dst, f.buf, ctx.fname_len,
                   SubSeq(f.buf, ctx.fname_len + 1, Len(f.buf)), ctx.data_len,
                   f.epoch, f.uid, rv)

\* shuffle_handle(ctx, buf, buf_sz, epoch, src, dst) for frame f, past the
\* size check: exotic_write(buf, fname_len, buf + fname_len + 1, data_len,
\* epoch); rv is the status the sink returns
shuffle_handle(s, f, rv) ==
  LET ctx == sctx[f.dst]
  IN  exotic_write(s, f.dst, f.buf, ctx.fname_len,
                   SubSeq(f.buf, ctx.fname_len + 2, Len(f.buf)), ctx.data_len,
                   f.epoch, f.uid, rv)

(***************************************************************************)
(* The NN backend: one rpc per record, sent by a background thread; the    *)
(* receiver runs the callback and replies.                                 *)
(***************************************************************************)
\* the background thread of rank r sends the next queued rpc.  In force-sync
\* mode a rank has one rpc outstanding at a time.
nn_send(r) ==
  /\ sctx[r].type = "NN"
  /\ outq[r] # <<>>
  /\ env.force_sync => Outstanding(r) = {}
  /\ net' = net \cup {Head(outq[r])}
  /\ outq' = [outq EXCEPT ![r] = Tail(@)]
  /\ mctx' = [mctx EXCEPT ![r] = shuffle_msg_sent(@)]
  /\ UNCHANGED <<uri, fin, thr, env, sctx, pc, epoch, pend, replies, sink, xnlive, rep,
                 wlog, nwrites, routed>>

\* the rpc handler at the destination of frame f
nn_deliver(f, rv) ==
  /\ f \in net
  /\ f.hop = "rpc"
  /\ net' = net \ {f}
  /\ IF HandleSizeOk(sctx[f.dst], Len(f.buf))
       THEN /\ sink' = shuffle_handle(sink, f, rv)
            /\ replies' = replies \cup {[f EXCEPT !.rv = rv]}
            /\ pc' = pc
       ELSE /\ pc' = [pc EXCEPT ![f.dst] = "abort: unexpected size"]
            /\ UNCHANGED <<sink, replies>>
  /\ mctx' = [mctx EXCEPT ![f.dst] = shuffle_msg_received(@)]
  /\ UNCHANGED <<uri, fin, thr, env, sctx, epoch, pend, outq, xnlive, rep, wlog, nwrites,
                 routed>>

\* the reply callback at the sender of frame f
nn_reply(f) ==
  /\ f \in replies
  /\ replies' = replies \ {f}
  /\ mctx' = [mctx EXCEPT ![f.src] = shuffle_msg_replied(@)]
  /\ UNCHANGED <<uri, fin, thr, env, sctx, pc, epoch, pend, outq, net, sink, xnlive, rep,
                 wlog, nwrites, routed>>

\* nn_shuffler_flushq() may return: the rpc queue is flushed (and, in
\* force-sync mode, every reply is in)
nn_flushq_done(r) == outq[r] = <<>> /\ (env.force_sync => Outstanding(r) = {})

\* nn_shuffler_waitcb() may return: no rpc of this rank awaits its reply
nn_waitcb_done(r) == Outstanding(r) = {}

(***************************************************************************)
(* The XN backend: frames travel src -> forwarder of src's node ->         *)
(* forwarder of dst's node -> dst; delivery is acknowledged in band.       *)
(***************************************************************************)
NodeOf(r) == r \div env.ppn

Forwarder(node) == node * env.ppn

\* where the rank holding a frame for dst sends it, and over which hop
NextHop(at, dst) ==
  IF NodeOf(at) = NodeOf(dst) THEN [to |-> dst, hop |-> "local"]
  ELSE IF at = Forwarder(NodeOf(at))
    THEN [to |-> Forwarder(NodeOf(dst)), hop |-> "remote"]
  ELSE [to |-> Forwarder(NodeOf(at)), hop |-> "local"]

\* rank r sends the frame at the head of its queue over its next hop
xn_forward(r) ==
  /\ sctx[r].type = "XN"
  /\ outq[r] # <<>>
  /\ LET f == Head(outq[r])
         h == NextHop(r, f.dst)
     IN  /\ net' = net \cup {[f EXCEPT !.at = h.to, !.hop = h.hop]}
         /\ xnlive' = [xnlive EXCEPT ![r][h.hop].sends = @ + 1]
  /\ outq' = [outq EXCEPT ![r] = Tail(@)]
  /\ UNCHANGED <<uri, fin, thr, env, sctx, pc, epoch, pend, replies, sink, mctx, rep, wlog,
                 nwrites, routed>>

\* frame f arrives at rank f.at: delivered there, or queued for its next hop
xn_receive(f, rv) ==
  /\ f \in net
  /\ f.hop # "rpc"
  /\ net' = net \ {f}
  /\ xnlive' = [xnlive EXCEPT ![f.at][f.hop].recvs = @ + 1]
  /\ IF f.at # f.dst
       THEN /\ rv = 0
            /\ outq' = [outq EXCEPT ![f.at] = Append(@, f)]
            /\ UNCHANGED <<sink, pc>>
       ELSE IF HandleSizeOk(sctx[f.dst], Len(f.buf))
         THEN /\ sink' = shuffle_handle(sink, f, rv)
              /\ UNCHANGED <<outq, pc>>
         ELSE /\ pc' = [pc EXCEPT ![f.dst] = "abort: unexpected size"]
              /\ UNCHANGED <<sink, outq>>
  /\ UNCHANGED <<uri, fin, thr, env, sctx, epoch, pend, replies, mctx, rep, wlog, nwrites,
                 routed>>

\* xn_shuffler_epoch_end(rep) may return: the rank's queue is flushed and
\* every frame it originated has been delivered
xn_epoch_end_done(r) ==
  /\ outq[r] = <<>>
  /\ \A f \in Queued \cup net : f.src # r

\* xn_shuffler_epoch_start(rep): keep the previous snapshot, take a new one
xn_shuffler_epoch_start(rp, live) == [last_stat |-> rp.stat, stat |-> live]

(***************************************************************************)
(* The epoch functions.                                                    *)
(***************************************************************************)
\* a shuffle_epoch_end that never waits for the rpc replies
EpochEndStepNoWait(ctx, force_sync, at) ==
  IF at = "call"
    THEN IF ctx.type = "XN" THEN "xn_epoch_end" ELSE "nn_flushq"
  ELSE "return"

\* a shuffle_epoch_end that waits for the replies only in force-sync mode
EpochEndStepInverted(ctx, force_sync, at) ==
  IF at = "call"
    THEN IF ctx.type = "XN" THEN "xn_epoch_end" ELSE "nn_flushq"
  ELSE IF at = "nn_flushq"
    THEN IF force_sync THEN "nn_waitcb" ELSE "return"
  ELSE "return"

\* shuffle_epoch_end(ctx): the backend call made at the start ("call") and
\* after the return of each one; "return" is the function's own return
EpochEndStep(ctx, force_sync, at) ==
  IF at = "call"
    THEN IF ctx.type = "XN" THEN "xn_epoch_end" ELSE "nn_flushq"
  ELSE IF at = "nn_flushq"
    THEN IF ~force_sync THEN "nn_waitcb" ELSE "return"
  ELSE "return"

\* what the caller does once shuffle_epoch_end has returned: finish after
\* the last epoch, else the end-of-epoch barrier (if enabled) and pre-start
\* a driver that never takes the end-of-epoch barrier
AfterEndNoBarrier(r) == IF epoch[r] = MaxEpoch THEN "done" ELSE "pre_start"

AfterEnd(r) ==
  IF epoch[r] = MaxEpoch THEN "done"
  ELSE IF env.paranoid_barrier THEN "bar_end" ELSE "pre_start"

\* pc values of a caller that has returned from shuffle_epoch_end for the
\* epoch it is in
EndedPcs == {"done", "bar_end", "pre_start", "epoch_start"}

\* shuffle_epoch_end(ctx) is called on rank r
shuffle_epoch_end(r) ==
  /\ pc[r] = "write"
  /\ pc' = [pc EXCEPT ![r] = EpochEndStep(sctx[r], env.force_sync, "call")]
  /\ UNCHANGED <<uri, fin, thr, env, sctx, epoch, pend, outq, net, replies, sink, mctx,
                 xnlive, rep, wlog, nwrites, routed>>

\* a backend call of shuffle_epoch_end returns on rank r
epoch_end_step(r) ==
  /\ \/ pc[r] = "nn_flushq" /\ nn_flushq_done(r)
     \/ pc[r] = "nn_waitcb" /\ nn_waitcb_done(r)
     \/ pc[r] = "xn_epoch_end" /\ xn_epoch_end_done(r)
  /\ LET nxt == EpochEndStep(sctx[r], env.force_sync, pc[r])
     IN  pc' = [pc EXCEPT ![r] = IF nxt = "return" THEN AfterEnd(r) ELSE nxt]
  /\ UNCHANGED <<uri, fin, thr, env, sctx, epoch, pend, outq, net, replies, sink, mctx,
                 xnlive, rep, wlog, nwrites, routed>>

\* the end-of-epoch world barrier (pctx.paranoid_barrier): every rank has
\* returned from shuffle_epoch_end; all leave together
preload_barrier ==
  /\ \A r \in Ranks : pc[r] = "bar_end"
  /\ pc' = [r \in Ranks |-> "pre_start"]
  /\ UNCHANGED <<uri, fin, thr, env, sctx, epoch, pend, outq, net, replies, sink, mctx,
                 xnlive, rep, wlog, nwrites, routed>>

\* shuffle_epoch_pre_start(ctx) on rank r; nn_shuffler_bgwait() finds the
\* background workers idle, a delivery being one step of the model
shuffle_epoch_pre_start(r) ==
  /\ pc[r] = "pre_start"
  /\ rep' = IF sctx[r].type = "XN"
              THEN [rep EXCEPT ![r] = xn_shuffler_epoch_start(@, xnlive[r])]
              ELSE rep
  /\ pc' = [pc EXCEPT ![r] = "epoch_start"]
  /\ UNCHANGED <<uri, fin, thr, env, sctx, epoch, pend, outq, net, replies, sink, mctx,
                 xnlive, wlog, nwrites, routed>>

\* the monitor counters shuffle_epoch_start copies out of rep (XN)
EpochStartMctx(m, rp) ==
  LET nlmr == rp.stat.local.recvs - rp.last_stat.local.recvs
      nlms == rp.stat.local.sends - rp.last_stat.local.sends
      nmr  == rp.stat.remote.recvs - rp.last_stat.remote.recvs
      nms  == rp.stat.remote.sends - rp.last_stat.remote.sends
  IN  [m EXCEPT !.nlmr = nlmr, !.min_nlmr = nlmr, !.max_nlmr = nlmr,
                !.nlms = nlms, !.min_nlms = nlms, !.max_nlms = nlms,
                !.nlmd = nlms,
                !.nmr = nmr, !.min_nmr = nmr, !.max_nmr = nmr,
                !.nms = nms, !.min_nms = nms, !.max_nms = nms,
                !.nmd = nms]

\* shuffle_epoch_start(ctx) on rank r; the caller then starts the next epoch
shuffle_epoch_start(r) ==
  /\ pc[r] = "epoch_start"
  /\ IF sctx[r].type = "XN"
       THEN LET rp == xn_shuffler_epoch_start(rep[r], xnlive[r])
            IN  /\ rep' = [rep EXCEPT ![r] = rp]
                /\ mctx' = [mctx EXCEPT ![r] = EpochStartMctx(@, rp)]
       ELSE UNCHANGED <<rep, mctx>>
  /\ epoch' = [epoch EXCEPT ![r] = @ + 1]
  /\ pc' = [pc EXCEPT ![r] = "write"]
  /\ UNCHANGED <<uri, fin, thr, env, sctx, pend, outq, net, replies, sink, xnlive, wlog,
                 nwrites, routed>>

(***************************************************************************)
(* The protocol specification.                                             *)
(***************************************************************************)
Env(n, bypass, radix, frpc, xn, fsync, bar, proto) ==
  [comm_sz |-> n, ppn |-> 2, mode_bypass |-> bypass,
   particle_id_size |-> 1, particle_size |-> 1, particle_extra_size |-> 1,
   sideio |-> FALSE, Recv_radix |-> radix, Force_rpc |-> frpc,
   Use_multihop |-> xn, Placement_protocol |-> proto, Virtual_factor |-> 2,
   force_sync |-> fsync, paranoid_barrier |-> bar, ndebug |-> FALSE,
   rusage_tags |-> 1]

Envs ==
  {Env(n, bypass, radix, frpc, xn, fsync, bar, "ring") :
     n \in 1..MaxWorld, bypass \in {FALSE}, radix \in {NoEnv, <<1>>},
     frpc \in BOOLEAN, xn \in BOOLEAN, fsync \in BOOLEAN,
     bar \in BOOLEAN}

(***************************************************************************)
(* The monitor callbacks as the threads of one rank execute them.  The     *)
(* callbacks update pctx.mctx with plain ++ statements: each is a load of  *)
(* the field, an addition and a store, and another thread may run between  *)
(* the load and the store.                                                 *)
(***************************************************************************)
Threads == {"caller", "progress", "worker"}

\* every thread runs the send callback
CallbackOfAllSend(t) == "sent"

\* the callback a thread runs: sends are counted by the caller thread,
\* receives by the progress thread, replies by the thread that handles them
CallbackOf(t) ==
  IF t = "caller" THEN "sent"
  ELSE IF t = "progress" THEN "received" ELSE "replied"

Callback(cb, m) ==
  IF cb = "sent" THEN shuffle_msg_sent(m)
  ELSE IF cb = "received" THEN shuffle_msg_received(m)
  ELSE shuffle_msg_replied(m)

\* the ++ statements of a callback, in the order of its body
FieldOrder ==
  <<"min_nms", "max_nms", "nms", "nmd", "min_nmr", "max_nmr", "nmr">>

CallbackFields(cb) ==
  SelectSeq(FieldOrder, LAMBDA f : Callback(cb, ZeroMctx)[f] # ZeroMctx[f])

\* the thread enters its callback if it is between calls, and loads the
\* field of its next ++
mon_load(t) ==
  LET F == CallbackFields(CallbackOf(t))
      c == thr[t]
  IN  /\ c.at % 2 = 0
      /\ c.at < 2 * Len(F)
      /\ c.at = 0 => c.calls < MaxCalls
      /\ thr' = [thr EXCEPT ![t] = [c EXCEPT !.at = @ + 1,
                                             !.reg = mctx[0][F[(c.at \div 2) + 1]]]]
      /\ UNCHANGED <<uri, fin, env, sctx, pc, epoch, pend, outq, net, replies,
                     sink, mctx, xnlive, rep, wlog, nwrites, routed>>

\* the thread stores the incremented value it loaded, and returns from the
\* callback after its last ++
mon_store(t) ==
  LET cb == CallbackOf(t)
      F == CallbackFields(cb)
      c == thr[t]
      f == F[(c.at + 1) \div 2]
      last == c.at + 1 = 2 * Len(F)
  IN  /\ c.at % 2 = 1
      /\ mctx' = [mctx EXCEPT ![0][f] =
                    Callback(cb, [mctx[0] EXCEPT ![f] = c.reg])[f]]
      /\ thr' = [thr EXCEPT ![t] =
                   [calls |-> IF last THEN c.calls + 1 ELSE c.calls,
                    at |-> IF last THEN 0 ELSE c.at + 1,
                    reg |-> 0,
                    raced |-> c.raced \/ \E u \in Threads \ {t} :
                                            thr[u].at % 2 = 1]]
      /\ UNCHANGED <<uri, fin, env, sctx, pc, epoch, pend, outq, net, replies,
                     sink, xnlive, rep, wlog, nwrites, routed>>

\* no shuffle_prepare_uri call is made
NoUri == [min_port |-> 0, max_port |-> 0, size |-> 0, st |-> <<>>]

IdleShuffle(e) ==
  /\ sctx = [r \in 0..(e.comm_sz - 1) |-> shuffle_init(e, r)]
  /\ pc = [r \in 0..(e.comm_sz - 1) |->
             IF shuffle_init(e, r).abort = None THEN "write"
             ELSE "abort: bad shuffle conf"]
  /\ epoch = [r \in 0..(e.comm_sz - 1) |-> 0]
  /\ pend = [r \in 0..(e.comm_sz - 1) |-> {}]
  /\ outq = [r \in 0..(e.comm_sz - 1) |-> <<>>]
  /\ net = {}
  /\ replies = {}
  /\ sink = [r \in 0..(e.comm_sz - 1) |-> EmptyBag]
  /\ mctx = [r \in 0..(e.comm_sz - 1) |-> ZeroMctx]
  /\ xnlive = [r \in 0..(e.comm_sz - 1) |-> ZeroStat]
  /\ rep = [r \in 0..(e.comm_sz - 1) |->
              [stat |-> ZeroStat, last_stat |-> ZeroStat]]
  /\ wlog = {}
  /\ nwrites = [r \in 0..(e.comm_sz - 1) |-> 0]
  /\ routed = {}
  /\ thr = [t \in Threads |-> [calls |-> 0, at |-> 0, reg |-> 0, raced |-> FALSE]]
  /\ fin = [r \in 0..(e.comm_sz - 1) |->
              [calls |-> 0, returned |-> 0, todo |-> <<>>, waiting |-> FALSE,
               log |-> <<>>]]

Idle(e) == IdleShuffle(e) /\ uri = NoUri

Init ==
  /\ env \in {e \in Envs : e.Use_multihop => ~e.force_sync}
  /\ Idle(env)

Names == [1..env.particle_id_size -> Bytes]

Datas == [1..env.particle_size -> 1..MaxData]

Next ==
  \/ \E r \in Ranks, fname \in Names, data \in Datas, srv \in {0, EOF} :
       shuffle_write(r, fname, data, srv)
  \/ \E r \in Ranks : shuffler_enqueue(r)
  \/ \E r \in Ranks : nn_send(r)
  \/ \E f \in net, rv \in {0, EOF} : nn_deliver(f, rv)
  \/ \E f \in replies : nn_reply(f)
  \/ \E r \in Ranks : xn_forward(r)
  \/ \E f \in net, rv \in {0, EOF} : xn_receive(f, rv)
  \/ \E r \in Ranks : shuffle_epoch_end(r)
  \/ \E r \in Ranks : epoch_end_step(r)
  \/ preload_barrier
  \/ \E r \in Ranks : shuffle_epoch_pre_start(r)
  \/ \E r \in Ranks : shuffle_epoch_start(r)

Spec == Init /\ [][Next]_vars

(***************************************************************************)
(* The routing specification: shuffle_target as a function of the          *)
(* configuration, the calling rank and the frame.                          *)
(***************************************************************************)
\* SHUFFLE_Recv_radix: absent, negative, 0, 1..8, and above 8
RadixEnvs == {NoEnv} \cup {<<n>> : n \in -1..(MAX_RADIX + 1)}

RouteEnvs ==
  {Env(n, bypass, radix, FALSE, FALSE, FALSE, FALSE, proto) :
     n \in 1..MaxRouteWorld, bypass \in BOOLEAN, radix \in RadixEnvs,
     proto \in {"ring", "static_modulo"}}

InitRoute ==
  /\ env \in {e \in RouteEnvs : e.mode_bypass => e.Placement_protocol = "ring"}
  /\ Idle(env)

RouteDatas == [1..env.particle_size -> Bytes]

\* rank r assembles the frame of (fname, data) and calls shuffle_target
route(r, fname, data) ==
  LET ctx == sctx[r]
      buf == Frame(ctx, fname, Len(fname), data, Len(data))
  IN  /\ Cardinality(routed) < MaxRouted
      /\ routed' = routed \cup {[rank |-> r, fname |-> fname, data |-> data,
                                  buf |-> buf,
                                  dst |-> shuffle_target(ctx, r, buf)]}
      /\ UNCHANGED <<uri, fin, thr, env, sctx, pc, epoch, pend, outq, net, replies, sink,
                     mctx, xnlive, rep, wlog, nwrites>>

NextRoute ==
  \E r \in Ranks, fname \in Names, data \in RouteDatas : route(r, fname, data)

SpecRoute == InitRoute /\ [][NextRoute]_vars

(***************************************************************************)
(* The configuration specification: one rank, the NN backend, the sizes    *)
(* of the particle id, payload and padding drawn around the 255-byte       *)
(* limit, shuffle_write called with the right and with wrong lengths, and  *)
(* frames of another configuration arriving at shuffle_handle.             *)
(***************************************************************************)
ConfIdSizes == {0, 1, 100}

ConfDataSizes == {1, 150, 153, 154, 155}

ConfExtraSizes == {0, 1, 10}

ConfEnvs ==
  {[Env(1, FALSE, NoEnv, frpc, FALSE, FALSE, FALSE, "ring")
      EXCEPT !.particle_id_size = i, !.particle_size = d,
             !.particle_extra_size = x, !.sideio = sio, !.ndebug = nd] :
     i \in ConfIdSizes, d \in ConfDataSizes, x \in ConfExtraSizes,
     sio \in BOOLEAN, nd \in BOOLEAN, frpc \in BOOLEAN}

\* with sideio the payload is 8 bytes whatever particle_size says
InitConf ==
  /\ env \in {e \in ConfEnvs : e.sideio => e.particle_size = 1}
  /\ Idle(env)

\* the pcs of a process that has taken an ABORT() or failed an assert
AbortPcs ==
  {"abort: bad shuffle conf", "abort: assert", "abort: bad filename len",
   "abort: bad data len", "abort: unexpected size"}

\* no process has aborted
Running == \A r \in Ranks : pc[r] \notin AbortPcs

\* n bytes that differ from place to place
Pattern(n, b) == [i \in 1..n |-> ((i + b) % MaxByte) + 1]

ConfNames(ctx) ==
  {Pattern(n, b) : n \in {ctx.fname_len, ctx.fname_len + 1}, b \in Bytes}

ConfDatas(ctx) == {Pattern(n, 1) : n \in {ctx.data_len, ctx.data_len + 1}}

\* the length shuffle_handle expects on rank r
FrameLen(ctx) == ctx.fname_len + 1 + ctx.data_len + ctx.extra_data_len

\* frames that were not assembled by this job's shuffle_write
IsForeign(uid) == uid[2] >= MaxWrites

\* the backend of rank r receives a frame of len bytes assembled under
\* some configuration, possibly another one
foreign_frame(r, len) ==
  LET f == Msg(r, MaxWrites + len, r, epoch[r], Pattern(len, 1))
  IN  /\ pc[r] = "write"
      /\ \A g \in net \cup replies : ~IsForeign(g.uid)
      /\ \A c \in BagToSet(sink[r]) : ~IsForeign(c.uid)
      /\ net' = net \cup {f}
      /\ UNCHANGED <<uri, fin, thr, env, sctx, pc, epoch, pend, outq, replies, sink, mctx,
                     xnlive, rep, wlog, nwrites, routed>>

\* an aborted process takes no further step
NextConf ==
  \/ \E r \in Ranks, srv \in {0, EOF} :
       \E fname \in ConfNames(sctx[r]), data \in ConfDatas(sctx[r]) :
         Running /\ shuffle_write(r, fname, data, srv)
  \/ \E r \in Ranks : Running /\ shuffler_enqueue(r)
  \/ \E r \in Ranks : Running /\ nn_send(r)
  \/ \E f \in net, rv \in {0, EOF} : Running /\ nn_deliver(f, rv)
  \/ \E f \in replies : Running /\ nn_reply(f)
  \/ \E r \in Ranks :
       \E len \in {FrameLen(sctx[r]) - 1, FrameLen(sctx[r]),
                    FrameLen(sctx[r]) + 1} :
         Running /\ foreign_frame(r, len)

SpecConf == InitConf /\ [][NextConf]_vars

(***************************************************************************)
(* The monitor specification: the threads of one NN rank run their         *)
(* callbacks concurrently, one load or one store at a time.                *)
(***************************************************************************)
InitMon ==
  /\ env = Env(1, FALSE, NoEnv, FALSE, FALSE, FALSE, FALSE, "ring")
  /\ Idle(env)

NextMon ==
  \/ \E t \in Threads : mon_load(t)
  \/ \E t \in Threads : mon_store(t)

SpecMon == InitMon /\ [][NextMon]_vars

(***************************************************************************)
(* shuffle_finalize.  A call is the sequence of the teardown steps and     *)
(* collective reductions its branch makes; a rank inside a reduction waits *)
(* there until every member of the communicator has entered it.            *)
(***************************************************************************)
\* pctx.recv_comm of rank r: the receivers' communicator, and MPI_COMM_NULL
\* (None) on a sender-only rank
recv_comm(r) == IF sctx[r].is_receiver THEN "recv" ELSE None

Members(c) ==
  IF c = "world" THEN Ranks ELSE {r \in Ranks : recv_comm(r) = c}

TeardownStep(op) == [op |-> op, comm |-> None, what |-> <<op, 0>>]

MPI_Reduce(comm, what, i) ==
  [op |-> "reduce", comm |-> comm, what |-> <<what, i>>]

\* every rank takes the reductions over the receivers' communicator
HasRecvCommAlways(r) == TRUE

\* pctx.recv_comm != MPI_COMM_NULL
HasRecvComm(r) == recv_comm(r) # None

\* if (ctx->type == SHUFFLE_XN && ctx->rep != NULL)
FinalizeIsXN(ctx) == ctx.type = "XN" /\ ctx.rep # None

\* the XN branch; its reductions are compiled out under NDEBUG
XNOps ==
  <<TeardownStep("xn_shuffler_destroy")>>
  \o (IF env.ndebug THEN <<>>
      ELSE <<MPI_Reduce("world", "sum rpcs", 0),
             MPI_Reduce("world", "min rpcs", 0),
             MPI_Reduce("world", "max rpcs", 0)>>)
  \o <<TeardownStep("rep = NULL")>>

\* for (i < NUM_RUSAGE) if (nnctx.r[i].tag[0] != 0) { two reductions }
RECURSIVE RusageOps(_, _)
RusageOps(comm, i) ==
  IF i > env.rusage_tags THEN <<>>
  ELSE <<MPI_Reduce(comm, "usr_micros", i), MPI_Reduce(comm, "sys_micros", i)>>
       \o RusageOps(comm, i + 1)

\* the else branch: the NN teardown and its reductions
NNOps(ctx, r) ==
  <<TeardownStep("nn_shuffler_destroy")>>
  \o RusageOps("world", 1)
  \o (IF ~shuffle_is_everyone_receiver(ctx) /\ HasRecvComm(r)
        THEN RusageOps("recv", 1) ELSE <<>>)
  \o (IF HasRecvComm(r)
        THEN <<MPI_Reduce("recv", "hg_intvl", 0),
               MPI_Reduce("recv", "iq_dep", 0),
               MPI_Reduce("recv", "total_writes", 0),
               MPI_Reduce("recv", "total_msgsz", 0)>>
        ELSE <<>>)

\* if (ctx->chp != NULL) { ch_placement_finalize(ctx->chp); ctx->chp = NULL; }
PlacementOps(ctx) ==
  IF ctx.chp # NullChp THEN <<TeardownStep("ch_placement_finalize")>> ELSE <<>>

shuffle_finalize_ops(ctx, r) ==
  (IF FinalizeIsXN(ctx) THEN XNOps ELSE NNOps(ctx, r)) \o PlacementOps(ctx)

\* what a rank's record becomes when it is done with the head of todo
FinPop(f) ==
  [f EXCEPT !.todo = Tail(@), !.waiting = FALSE,
            !.returned = IF Len(f.todo) = 1 THEN @ + 1 ELSE @]

\* rank r calls shuffle_finalize(ctx)
shuffle_finalize(r) ==
  /\ fin[r].calls < MaxFinCalls
  /\ fin[r].calls = fin[r].returned
  /\ fin' = [fin EXCEPT ![r].calls = @ + 1,
                        ![r].todo = shuffle_finalize_ops(sctx[r], r)]
  /\ UNCHANGED <<uri, thr, env, sctx, pc, epoch, pend, outq, net, replies, sink,
                 mctx, xnlive, rep, wlog, nwrites, routed>>

\* rank r makes the next step of its call, which is not a reduction
finalize_step(r) ==
  /\ fin[r].todo # <<>>
  /\ Head(fin[r].todo).op # "reduce"
  /\ LET op == Head(fin[r].todo).op
     IN  sctx' = [sctx EXCEPT
                    ![r].rep = IF op = "rep = NULL" THEN None ELSE @,
                    ![r].chp = IF op = "ch_placement_finalize" THEN NullChp
                               ELSE @]
  /\ fin' = [fin EXCEPT ![r] = [FinPop(@) EXCEPT
                                  !.log = Append(@, Head(fin[r].todo))]]
  /\ UNCHANGED <<uri, thr, env, pc, epoch, pend, outq, net, replies, sink, mctx,
                 xnlive, rep, wlog, nwrites, routed>>

\* rank r enters the reduction its call has reached
reduce_enter(r) ==
  /\ fin[r].todo # <<>>
  /\ Head(fin[r].todo).op = "reduce"
  /\ ~fin[r].waiting
  /\ fin' = [fin EXCEPT ![r].waiting = TRUE,
                        ![r].log = Append(@, Head(fin[r].todo))]
  /\ UNCHANGED <<uri, thr, env, sctx, pc, epoch, pend, outq, net, replies, sink,
                 mctx, xnlive, rep, wlog, nwrites, routed>>

InReduce(r, c) ==
  fin[r].waiting /\ fin[r].todo # <<>> /\ Head(fin[r].todo).comm = c

\* the reduction over communicator c completes: every member is inside it
reduce_complete(c) ==
  /\ Members(c) # {}
  /\ \A m \in Members(c) : InReduce(m, c)
  /\ fin' = [r \in Ranks |-> IF r \in Members(c) THEN FinPop(fin[r])
                             ELSE fin[r]]
  /\ UNCHANGED <<uri, thr, env, sctx, pc, epoch, pend, outq, net, replies, sink,
                 mctx, xnlive, rep, wlog, nwrites, routed>>

(***************************************************************************)
(* The teardown specification: every rank calls shuffle_finalize, and may  *)
(* call it again.                                                          *)
(***************************************************************************)
FinEnvs ==
  {[Env(n, FALSE, radix, FALSE, xn, FALSE, FALSE, "ring")
      EXCEPT !.ndebug = nd] :
     n \in 1..MaxFinWorld, radix \in {NoEnv, <<1>>, <<2>>},
     xn \in BOOLEAN, nd \in BOOLEAN}

InitFin ==
  /\ env \in FinEnvs
  /\ Idle(env)

NextFin ==
  \/ \E r \in Ranks : shuffle_finalize(r)
  \/ \E r \in Ranks : finalize_step(r)
  \/ \E r \in Ranks : reduce_enter(r)
  \/ \E c \in {"world", "recv"} : reduce_complete(c)

SpecFin == InitFin /\ [][NextFin]_vars /\ WF_vars(NextFin)

(***************************************************************************)
(* shuffle_prepare_uri: the choice of the port.                            *)
(***************************************************************************)
\* the sanity check on the port range
PortRangeCheck(min_port, max_port) ==
  IF max_port - min_port < 0 THEN "bad min-max port"
  ELSE IF min_port < 1 THEN "bad min port"
  ELSE IF max_port > MAX_PORT THEN "bad max port"
  ELSE None

\* port = min_port + (rank % (1 + max_port - min_port))
FirstProbe(min_port, max_port, rank) ==
  min_port + (rank % (1 + max_port - min_port))

\* a probe loop that steps by one port
ProbeFromNext(port, max_port, size, free) ==
  LET RECURSIVE P(_)
      P(p) == IF p > max_port THEN <<>>
              ELSE IF p \in free THEN <<p>>
              ELSE <<p>> \o P(p + 1)
  IN  P(port)

\* for (; port <= max_port; port += size): the ports the loop binds, in
\* order; bind succeeds on the ports of free, and the loop breaks there
RECURSIVE ProbeFrom(_, _, _, _)
ProbeFrom(port, max_port, size, free) ==
  IF port > max_port THEN <<>>
  ELSE IF port \in free THEN <<port>>
  ELSE <<port>> \o ProbeFrom(port + size, max_port, size, free)

\* shuffle_prepare_uri on local rank q.  free: the ports on which bind
\* succeeds during the call; eph: the port getsockname reads back in the
\* fallback, 0 if its bind or getsockname fails; so_ok: socket() succeeds
PrepareUri(min_port, max_port, rank, size, free, eph, so_ok) ==
  LET chk    == PortRangeCheck(min_port, max_port)
      probed == ProbeFrom(FirstProbe(min_port, max_port, rank), max_port,
                          size, free)
      bound  == probed # <<>> /\ probed[Len(probed)] \in free
      port   == IF bound THEN probed[Len(probed)] ELSE eph
  IN  IF chk # None
        THEN [pc |-> "abort: " \o chk, port |-> 0, probed |-> <<>>,
              how |-> None]
      ELSE IF ~so_ok
        THEN [pc |-> "abort: socket", port |-> 0, probed |-> <<>>,
              how |-> None]
      ELSE IF port = 0
        THEN [pc |-> "abort: no free ports", port |-> 0, probed |-> probed,
              how |-> None]
      ELSE [pc |-> "done", port |-> port, probed |-> probed,
            how |-> IF bound THEN "range" ELSE "ephemeral"]

LocalRanks == 0..(uri.size - 1)

\* local rank q runs shuffle_prepare_uri
shuffle_prepare_uri(q, free, eph, so_ok) ==
  /\ uri.st[q].pc = "start"
  /\ uri' = [uri EXCEPT !.st[q] =
                [free |-> free, eph |-> eph] @@
                PrepareUri(uri.min_port, uri.max_port, q, uri.size, free,
                           eph, so_ok)]
  /\ UNCHANGED <<fin, thr, env, sctx, pc, epoch, pend, outq, net, replies,
                 sink, mctx, xnlive, rep, wlog, nwrites, routed>>

(***************************************************************************)
(* The uri specification: the ranks of one node choose their ports.        *)
(***************************************************************************)
UriMinPorts == {0, 1, 2}

UriMaxPorts == {1, 2, 3, 4, 5, MAX_PORT + 1}

\* a port of the system's ephemeral range
EphemeralPort == 40000

InitUri ==
  /\ env = Env(1, FALSE, NoEnv, FALSE, FALSE, FALSE, FALSE, "ring")
  /\ IdleShuffle(env)
  /\ \E mn \in UriMinPorts, mx \in UriMaxPorts, n \in 1..MaxLocalSize :
       /\ mx <= mn + MaxPortSpan \/ mx > MAX_PORT
       /\ uri = [min_port |-> mn, max_port |-> mx, size |-> n,
                 st |-> [q \in 0..(n - 1) |->
                           [pc |-> "start", port |-> 0, probed |-> <<>>,
                            how |-> None, free |-> {}, eph |-> 0]]]

\* the ports of the configured range, if the range is accepted
RangePorts ==
  IF PortRangeCheck(uri.min_port, uri.max_port) = None
    THEN uri.min_port..uri.max_port ELSE {}

NextUri ==
  \E q \in LocalRanks :
    \E free \in SUBSET RangePorts,
       eph \in {0, EphemeralPort}, so_ok \in BOOLEAN :
      shuffle_prepare_uri(q, free, eph, so_ok)

SpecUri == InitUri /\ [][NextUri]_vars

(***************************************************************************)
(* Vocabulary of the properties.                                           *)
(***************************************************************************)
\* rank r has returned from shuffle_epoch_end for epoch k
Ended(r, k) == epoch[r] > k \/ (epoch[r] = k /\ pc[r] \in EndedPcs)

\* the sink calls made on rank r for the record uid
CallsFor(r, uid) == {c \in BagToSet(sink[r]) : c.uid = uid}

\* how many times the sink of rank r was invoked for the record uid
NCalls(r, uid) == SumOver([c \in CallsFor(r, uid) |-> CopiesIn(c, sink[r])],
                          CallsFor(r, uid))

\* the sink entry a record reaches: native on the bypass, exotic by rpc
EntryOf(w) == IF w.path = "bypass" THEN "native" ELSE "exotic"

\* the frames of the records rank r has handed to the backend that have not
\* reached shuffle_handle
UndeliveredOf(r) == {f \in Undelivered : f.src = r}

\* C1: a record whose shuffle_write returned 0 in epoch e reaches the sink of
\* rank shuffle_target(id) exactly once, with epoch e, once the writer has
\* returned from shuffle_epoch_end for e; it never reaches the sink of any
\* other rank and never reaches any sink twice
C1_NoLossNoDupRightDest ==
  \A w \in wlog : w.rv = 0 =>
    /\ w.dst = shuffle_target(sctx[w.src], w.src, w.buf)
    /\ w.dst \in Ranks
    /\ \A r \in Ranks \ {w.dst} : NCalls(r, w.uid) = 0
    /\ NCalls(w.dst, w.uid) <= 1
    /\ \A c \in CallsFor(w.dst, w.uid) :
         /\ c.epoch = w.epoch
         /\ c.kind = EntryOf(w)
         /\ c.fname = w.fname
         /\ c.data = w.data
    /\ Ended(w.src, w.epoch) => NCalls(w.dst, w.uid) = 1

\* a write that blocked on a full queue went to another rank by rpc, and
\* its writer has since returned from shuffle_epoch_end
C1_Witness ==
  \E w \in wlog :
    /\ w.rv = 0 /\ w.path = "rpc" /\ w.blocked /\ w.dst # w.src
    /\ Ended(w.src, w.epoch)
    /\ NCalls(w.dst, w.uid) = 1

\* C2: when shuffle_epoch_end has returned on rank r, every frame r handed
\* to the backend before the call has been delivered to shuffle_handle at
\* its destination
C2_EpochEndDrainsOwnFrames ==
  \A r \in Ranks : \A w \in wlog :
    (w.src = r /\ w.path = "rpc" /\ Ended(r, w.epoch)) =>
      /\ \A f \in Undelivered : f.uid # w.uid
      /\ \E c \in CallsFor(w.dst, w.uid) : c.kind = "exotic"

\* an NN rank without force-sync returned from shuffle_epoch_end after it
\* had enqueued a frame for another rank
C2_Witness ==
  \E w \in wlog :
    /\ w.path = "rpc" /\ w.dst # w.src
    /\ sctx[w.src].type = "NN" /\ ~env.force_sync
    /\ Ended(w.src, w.epoch)

\* C3 as stated: once shuffle_epoch_end for epoch k has returned on a rank,
\* no frame labelled k sent by any rank is queued, in transit or undelivered
C3_GlobalQuiescenceOnReturn ==
  \A r \in Ranks : \A f \in Undelivered : ~Ended(r, f.epoch)

\* C3, amended: once shuffle_epoch_end for epoch k has returned on a rank,
\* no frame labelled k sent by that rank is queued, in transit or
\* undelivered; no frame labelled k of any rank is, once every rank has
\* returned from shuffle_epoch_end for k
C3_QuiescenceOfReturnedRanks ==
  /\ \A r \in Ranks : \A f \in UndeliveredOf(r) : ~Ended(r, f.epoch)
  /\ \A k \in 0..MaxEpoch :
       (\A r \in Ranks : Ended(r, k)) =>
         \A f \in Undelivered : f.epoch # k

\* every rank has returned from shuffle_epoch_end for an epoch in which a
\* frame went from one rank to another, and none is in flight
C3_Witness ==
  \E w \in wlog :
    /\ w.path = "rpc" /\ w.dst # w.src
    /\ \A r \in Ranks : Ended(r, w.epoch)
    /\ Undelivered = {}

\* C4: with the end-of-epoch barrier enabled, no sink has seen a record of
\* epoch k+1 unless every rank has finished submitting in epoch k and every
\* epoch-k record submitted on any rank has been delivered
C4_BarrierOrdersEpochs ==
  env.paranoid_barrier =>
    \A k \in 0..MaxEpoch :
      (\E r \in Ranks : \E c \in BagToSet(sink[r]) : c.epoch = k + 1) =>
        /\ \A r \in Ranks : Ended(r, k)
        /\ \A f \in Undelivered : f.epoch # k
        /\ \A w \in wlog : w.epoch = k => NCalls(w.dst, w.uid) = 1

\* with the barrier, a rank's sink got an epoch-0 record from another rank
\* and then a record of epoch 1
C4_Witness ==
  /\ env.paranoid_barrier
  /\ \E r \in Ranks : \E c, d \in BagToSet(sink[r]) :
       /\ c.epoch = 0 /\ c.kind = "exotic" /\ c.uid[1] # r
       /\ d.epoch = 1

\* the records that went by rpc
RpcWrites == {w \in wlog : w.path = "rpc"}

\* the number of XN hops a frame makes from rank at to rank dst
RECURSIVE PathLen(_, _)
PathLen(at, dst) ==
  IF NextHop(at, dst).to = dst THEN 1
  ELSE 1 + PathLen(NextHop(at, dst).to, dst)

\* every rank has returned from shuffle_epoch_end for epoch k and no rank
\* has submitted a record of a later epoch
EpochClosed(k) ==
  /\ \A r \in Ranks : Ended(r, k)
  /\ \A w \in wlog : w.epoch <= k
  /\ \A f \in Pending : f.epoch <= k

\* the frames counted as sent and as received, over all ranks
TotalSent ==
  IF env.Use_multihop
    THEN SumOver([r \in Ranks |-> xnlive[r].local.sends
                                    + xnlive[r].remote.sends], Ranks)
    ELSE SumOver([r \in Ranks |-> mctx[r].nms], Ranks)

TotalReceived ==
  IF env.Use_multihop
    THEN SumOver([r \in Ranks |-> xnlive[r].local.recvs
                                    + xnlive[r].remote.recvs], Ranks)
    ELSE SumOver([r \in Ranks |-> mctx[r].nmr], Ranks)

C6_PlacementDeterminism ==
  \A a, b \in routed : a.fname = b.fname => a.dst = b.dst

\* two ranks routed the same particle id with different payloads, in a
\* world of more than one rank
C6_Witness ==
  \E a, b \in routed :
    /\ a.fname = b.fname /\ a.data # b.data /\ a.rank # b.rank
    /\ a.dst = b.dst
    /\ env.comm_sz > 1

\* C7: every destination shuffle_target returns is a receiver: it is its
\* own image under the receiver mask, shuffle_is_rank_receiver holds of it,
\* and no frame is queued for, in transit to or delivered at a rank whose
\* is_receiver is false
C7_DestinationsAreReceivers ==
  /\ \A r \in Ranks : \A fname \in Names : \A data \in Datas :
       LET d == shuffle_target(sctx[r], r,
                               Frame(sctx[r], fname, Len(fname), data,
                                     Len(data)))
       IN  /\ IntAndMask(d, sctx[r].receiver_mask) = d
           /\ shuffle_is_rank_receiver(sctx[r], d)
           /\ d \in Ranks /\ sctx[d].is_receiver
  /\ \A w \in wlog :
       /\ IntAndMask(w.dst, sctx[w.src].receiver_mask) = w.dst
       /\ shuffle_is_rank_receiver(sctx[w.src], w.dst)
  /\ \A f \in Undelivered \cup replies :
       f.dst \in Ranks /\ sctx[f.dst].is_receiver
  /\ \A r \in Ranks : sink[r] # EmptyBag => sctx[r].is_receiver

\* with one receiver in two, a record whose unmasked target is a sender was
\* delivered to the receiver below it
C7_Witness ==
  \E w \in wlog :
    /\ sctx[w.src].receiver_rate = 2
    /\ RawTarget(sctx[w.src], w.src, w.buf) = 1
    /\ w.dst = 0
    /\ ~sctx[1].is_receiver
    /\ NCalls(0, w.uid) = 1

\* C8: whatever the world size and the receiver radix, shuffle_target
\* returns a rank dst with 0 <= dst < world_size
C8_TargetInRange ==
  \A a \in routed : 0 <= a.dst /\ a.dst < env.comm_sz

\* the mask changed the rank: the unmasked target was not a receiver
C8_Witness ==
  \E a \in routed :
    /\ EffectiveRadix(env) > 0
    /\ a.dst # RawTarget(sctx[a.rank], a.rank, a.buf)
    /\ a.dst < env.comm_sz

\* the number of ranks that are receivers
NumReceivers ==
  Cardinality({r \in Ranks : sctx[r].is_receiver
                             /\ shuffle_is_rank_receiver(sctx[r], r)})

\* C9 as stated: with radix k (0 <= k <= 8) exactly world_size / 2^k ranks
\* are receivers
C9_ReceiverCountIsQuotient ==
  /\ \A r \in Ranks : sctx[r].is_receiver = shuffle_is_rank_receiver(sctx[r], r)
  /\ NumReceivers = env.comm_sz \div Pow2(EffectiveRadix(env))

\* C9, amended: with radix k (0 <= k <= 8) exactly ceil(world_size / 2^k)
\* ranks are receivers, the multiples of 2^k below world_size; radix 0
\* makes every rank a receiver
C9_ReceiverCountIsCeiling ==
  /\ \A r \in Ranks : sctx[r].is_receiver = shuffle_is_rank_receiver(sctx[r], r)
  /\ \A r \in Ranks : sctx[r].is_receiver <=> r % Pow2(EffectiveRadix(env)) = 0
  /\ NumReceivers = (env.comm_sz + Pow2(EffectiveRadix(env)) - 1)
                      \div Pow2(EffectiveRadix(env))
  /\ EffectiveRadix(env) = 0 => NumReceivers = env.comm_sz

\* a world whose size is no multiple of 2^k: 3 ranks with radix 1 have 2
\* receivers
C9_Witness ==
  /\ env.comm_sz = 3 /\ EffectiveRadix(env) = 1 /\ NumReceivers = 2
  /\ routed # {}

\* C10 as stated: on the local bypass shuffle_write calls exotic_write
C10_BypassCallsExoticWrite ==
  \A w \in wlog : w.path = "bypass" =>
    \A c \in CallsFor(w.src, w.uid) : c.kind = "exotic"

\* C10, amended: when the destination is the calling rank and force_rpc is
\* off, shuffle_write enqueues nothing, calls native_write once on the
\* calling rank and returns its status
C10_BypassCallsNativeWrite ==
  \A w \in wlog : w.path = "bypass" =>
    /\ w.dst = w.src /\ ~sctx[w.src].force_rpc
    /\ NCalls(w.src, w.uid) = 1
    /\ \A c \in CallsFor(w.src, w.uid) :
         c.kind = "native" /\ c.rv = w.rv /\ c.epoch = w.epoch
    /\ \A f \in Undelivered \cup replies : f.uid # w.uid

\* a bypass write whose sink call failed returned the failure
C10_Witness ==
  \E w \in wlog : w.path = "bypass" /\ w.rv = EOF /\ NCalls(w.src, w.uid) = 1

\* C11 as stated: whenever the sink fails while delivering a record, on the
\* bypass or on the rpc path, the shuffle_write that submitted the record
\* returns EOF; shuffle_write returns 0 only when the sink write succeeded
C11_SinkFailureReported ==
  \A w \in wlog : \A c \in CallsFor(w.dst, w.uid) :
    c.rv = EOF <=> w.rv = EOF

\* C11, amended: shuffle_write returns the sink's status only on the local
\* bypass (dst = self and force_rpc off); on the rpc path it returns 0 once
\* the frame is enqueued, whatever exotic_write returns at the destination;
\* that status goes from shuffle_handle to the backend
C11_SinkStatusOnBypassOnly ==
  /\ \A w \in wlog :
       /\ w.path = "bypass" <=> (w.dst = w.src /\ ~sctx[w.src].force_rpc)
       /\ w.path = "bypass" =>
            /\ NCalls(w.src, w.uid) = 1
            /\ \A c \in CallsFor(w.src, w.uid) : c.rv = w.rv
       /\ w.path = "rpc" => w.rv = 0
  /\ \A f \in replies : \E c \in CallsFor(f.dst, f.uid) : c.rv = f.rv

\* the sink failed on a record delivered by rpc whose shuffle_write had
\* returned 0
C11_Witness ==
  \E w \in wlog :
    /\ w.path = "rpc" /\ w.rv = 0
    /\ \E c \in CallsFor(w.dst, w.uid) : c.rv = EOF /\ c.kind = "exotic"

\* (identifier, payload, epoch) of a sink call or of a write
Observed(x) == [fname |-> x.fname, data |-> x.data, epoch |-> x.epoch]

\* how often the sink of rank r saw the record rec submitted by r itself
SelfObserved(r, rec) ==
  LET S == {c \in BagToSet(sink[r]) : c.uid[1] = r /\ Observed(c) = rec}
  IN  SumOver([c \in S |-> CopiesIn(c, sink[r])], S)

\* how often rank r submitted the record rec with itself as the route
SelfSubmitted(r, rec) ==
  Cardinality({w \in wlog : w.src = r /\ w.dst = r /\ Observed(w) = rec})

\* the records rank r's sink could have seen from r itself
SelfRecords(r) ==
  {Observed(w) : w \in {v \in wlog : v.src = r}}
    \cup {Observed(c) : c \in {d \in BagToSet(sink[r]) : d.uid[1] = r}}

\* C12: for the writes whose route is the submitting rank, the multiset of
\* (identifier, payload, epoch) that rank's sink has observed once
\* shuffle_epoch_end has returned is the multiset submitted, with force_rpc
\* off (inside shuffle_write) and with force_rpc on (through shuffle_handle)
\* alike
C12_BypassEquivalence ==
  \A r \in Ranks : \A rec \in SelfRecords(r) :
    Ended(r, rec.epoch) => SelfObserved(r, rec) = SelfSubmitted(r, rec)

\* with force_rpc on, a rank submitted the same record twice to itself by
\* NN rpc and its sink has seen it twice when shuffle_epoch_end returned
C12_Witness ==
  \E r \in Ranks : \E rec \in SelfRecords(r) :
    /\ sctx[r].force_rpc /\ sctx[r].type = "NN"
    /\ Ended(r, rec.epoch)
    /\ SelfSubmitted(r, rec) = 2 /\ SelfObserved(r, rec) = 2

\* C17: with force_rpc set shuffle_write never invokes the sink itself:
\* every record, one routed to the submitting rank included, is enqueued
\* and reaches the sink only through shuffle_handle's exotic_write
C17_ForceRpcNeverBypasses ==
  \A r \in Ranks : sctx[r].force_rpc =>
    /\ \A w \in wlog : w.src = r =>
         /\ w.path = "rpc" /\ w.rv = 0
         /\ \A q \in Ranks : \A c \in CallsFor(q, w.uid) : c.kind = "exotic"
         /\ NCalls(w.dst, w.uid) + Cardinality({f \in Undelivered :
                                                  f.uid = w.uid}) = 1
    /\ \A c \in BagToSet(sink[r]) : c.kind = "exotic"

\* with force_rpc on and the XN backend, a record routed to its own
\* submitter sat in the backend's queue and then reached exotic_write
C17_Witness ==
  \E w \in wlog :
    /\ sctx[w.src].force_rpc /\ sctx[w.src].type = "XN"
    /\ w.dst = w.src /\ w.path = "rpc"
    /\ \E c \in CallsFor(w.dst, w.uid) : c.kind = "exotic"

\* C13: the frame shuffle_write assembles is [identifier][0][payload][zero
\* padding], fname_len + 1 + data_len + extra_data_len bytes long; it passes
\* shuffle_handle's size check under the same configuration, and the
\* identifier and payload shuffle_handle gives the sink are those submitted
C13_FrameRoundTrip ==
  \A w \in wlog :
    LET ctx == sctx[w.src]
        fl  == ctx.fname_len
        dl  == ctx.data_len
    IN  /\ Len(w.buf) = fl + 1 + dl + ctx.extra_data_len
        /\ Len(w.buf) <= BUF_SIZE
        /\ SubSeq(w.buf, 1, fl) = w.fname
        /\ w.buf[fl + 1] = 0
        /\ SubSeq(w.buf, fl + 2, fl + 1 + dl) = w.data
        /\ \A j \in (fl + dl + 2)..Len(w.buf) : w.buf[j] = 0
        /\ HandleSizeOk(sctx[w.dst], Len(w.buf))
        /\ \A c \in CallsFor(w.dst, w.uid) :
             c.fname = w.fname /\ c.data = w.data
        /\ (w.path = "rpc" /\ \A f \in Undelivered : f.uid # w.uid) =>
             NCalls(w.dst, w.uid) = 1

\* a frame with a 100-byte identifier and padding went through
\* shuffle_handle
C13_Witness ==
  \E w \in wlog :
    /\ sctx[w.src].fname_len = 100 /\ sctx[w.src].extra_data_len > 0
    /\ w.path = "rpc"
    /\ \E c \in CallsFor(w.dst, w.uid) :
         c.kind = "exotic" /\ c.fname = w.fname /\ c.data = w.data

\* C14: shuffle_init aborts exactly when fname_len is 0 or fname_len +
\* data_len + extra_data_len + 1 > 255, before the backend is initialised
\* and the placement engine created; every other configuration is accepted
C14_InitAbortsIffInvalid ==
  \A r \in Ranks :
    LET ctx == sctx[r]
        bad == \/ ctx.fname_len = 0
               \/ ctx.fname_len + ctx.data_len + ctx.extra_data_len + 1 > 255
    IN  /\ (ctx.abort # None) <=> bad
        /\ bad => /\ ~ctx.backend_up /\ ~ctx.placement_up
                  /\ ctx.type = None /\ ctx.rep = None
                  /\ pc[r] = "abort: bad shuffle conf"
                  /\ nwrites[r] = 0
        /\ ~bad => ctx.backend_up /\ ctx.placement_up
                     /\ pc[r] # "abort: bad shuffle conf"

\* a configuration that fills the 255 bytes exactly was accepted, and a
\* write was made under it
C14_Witness ==
  \E r \in Ranks :
    /\ sctx[r].fname_len + sctx[r].data_len + sctx[r].extra_data_len + 1 = 255
    /\ sctx[r].abort = None /\ sctx[r].backend_up
    /\ \E w \in wlog : w.src = r

\* the effects a shuffle_write could have had
WriteEffects == <<sink, outq, pend, net, replies, mctx, wlog>>

\* C15: a shuffle_write whose fname_len or data_len differs from the
\* configured value ends in an abort with no effect: no such call returns,
\* and the aborting step invokes no sink, enqueues nothing and changes no
\* counter
C15_BadLengthAbortsWithoutEffect ==
  /\ [](/\ \A w \in wlog : /\ Len(w.fname) = sctx[w.src].fname_len
                           /\ Len(w.data) = sctx[w.src].data_len
        /\ \A f \in Undelivered :
             ~IsForeign(f.uid) => Len(f.buf) = FrameLen(sctx[f.src]))
  /\ [][\A r \in Ranks :
          (pc[r] = "write"
             /\ pc'[r] \in {"abort: bad filename len", "abort: bad data len"})
          => UNCHANGED WriteEffects]_vars
  /\ [][\A r \in Ranks :
          (nwrites'[r] # nwrites[r] /\ ~UNCHANGED WriteEffects)
          => pc'[r] \in {"write", "enqueue"}]_vars

\* after one good write, a write with a wrong length aborted
C15_Witness ==
  \E r \in Ranks :
    /\ pc[r] \in {"abort: bad filename len", "abort: bad data len"}
    /\ nwrites[r] = 2
    /\ Cardinality(wlog) = 1
    /\ NCalls(r, <<r, 1>>) = 0

\* C16: shuffle_handle aborts on every inbound frame whose length is not
\* fname_len + 1 + data_len + extra_data_len, without calling exotic_write;
\* for a frame of the right length it calls exotic_write once and returns
\* its status
C16_HandleChecksFrameSize ==
  [][\A f \in net : f \notin net' =>
       IF Len(f.buf) = FrameLen(sctx[f.dst])
         THEN /\ NCalls(f.dst, f.uid)' = NCalls(f.dst, f.uid) + 1
              /\ pc' = pc
              /\ \E g \in replies' \ replies :
                   /\ g.uid = f.uid
                   /\ \E c \in CallsFor(f.dst, f.uid)' :
                        c.kind = "exotic" /\ c.rv = g.rv
         ELSE /\ sink' = sink
              /\ replies' = replies
              /\ pc'[f.dst] = "abort: unexpected size"]_vars

\* a frame one byte too long made shuffle_handle abort, with no sink call
C16_Witness ==
  \E r \in Ranks :
    /\ pc[r] = "abort: unexpected size"
    /\ \A c \in BagToSet(sink[r]) : ~IsForeign(c.uid)
    /\ net = {}

\* C18 as stated: under every configuration shuffle_init accepts,
\* shuffle_write runs without an assertion failure and its frame fits the
\* 255-byte buffer
C18_AcceptedConfigNeverAsserts ==
  /\ \A r \in Ranks : sctx[r].abort = None => pc[r] # "abort: assert"
  /\ \A w \in wlog : Len(w.buf) <= BUF_SIZE

\* C19 as stated, for the first epoch transition (the previous snapshot is
\* the zeroed one of xn_shuffler_init): on the XN backend, after
\* shuffle_epoch_end(0) and shuffle_epoch_pre_start(1), shuffle_epoch_start(1)
\* writes to the monitor context the sends and receives, local and remote,
\* counted since the start of the run, with delivered = sends and
\* min = max = value
C19_EpochStartWritesEpochDeltas ==
  [][\A r \in Ranks :
       (sctx[r].type = "XN" /\ epoch[r] = 0
          /\ pc[r] = "epoch_start" /\ pc'[r] = "write") =>
         LET m == mctx'[r]
         IN  /\ m.nlms = xnlive[r].local.sends
             /\ m.nlmr = xnlive[r].local.recvs
             /\ m.nms = xnlive[r].remote.sends
             /\ m.nmr = xnlive[r].remote.recvs
             /\ m.nlmd = m.nlms /\ m.nmd = m.nms
             /\ m.min_nlms = m.nlms /\ m.max_nlms = m.nlms
             /\ m.min_nlmr = m.nlmr /\ m.max_nlmr = m.nlmr
             /\ m.min_nms = m.nms /\ m.max_nms = m.nms
             /\ m.min_nmr = m.nmr /\ m.max_nmr = m.nmr]_vars


\* Invocations of a callback that have returned, over all threads.
Invocations(cb) ==
  LET n(t) == IF CallbackOf(t) = cb THEN thr[t].calls ELSE 0
  IN  n("caller") + n("progress") + n("worker")

AllReturned == \A t \in Threads : thr[t].at = 0

FinLog(r) == {fin[r].log[i] : i \in 1..Len(fin[r].log)}

\* How many times rank r has made the teardown step op.
TimesDone(r, op) ==
  Cardinality({i \in 1..Len(fin[r].log) : fin[r].log[i].op = op})

NNReductions ==
  {"usr_micros", "sys_micros", "hg_intvl", "iq_dep", "total_writes",
   "total_msgsz"}

\* C21, as stated: on a rank whose context has type XN no sequence of
\* shuffle_finalize calls, a second call included, runs the NN teardown
\* (nn_shuffler_destroy and the NN reductions); the backend is destroyed
\* and the placement engine finalised at most once.
C21_XNNeverRunsNNTeardown ==
  \A r \in Ranks :
    sctx[r].type = "XN" =>
      /\ TimesDone(r, "nn_shuffler_destroy") = 0
      /\ \A e \in FinLog(r) : e.what[1] \notin NNReductions
      /\ TimesDone(r, "xn_shuffler_destroy") <= 1
      /\ TimesDone(r, "ch_placement_finalize") <= 1


\* The reductions over communicator c that rank r has entered, in order.
CommLog(r, c) == SelectSeq(fin[r].log, LAMBDA e : e.comm = c)

IsPrefix(a, b) == Len(a) <= Len(b) /\ SubSeq(b, 1, Len(a)) = a

\* Reductions are entered by members only, and in one order by all of them.
ReductionsMatch ==
  \A c \in {"world", "recv"} :
    /\ \A r \in Ranks \ Members(c) : CommLog(r, c) = <<>>
    /\ \A r1, r2 \in Members(c) :
         \/ IsPrefix(CommLog(r1, c), CommLog(r2, c))
         \/ IsPrefix(CommLog(r2, c), CommLog(r1, c))

AllFinalized == \A r \in Ranks : fin[r].returned >= 1

Overtakings ==
  {<<d, c, f>> \in UNION {{<<d, c, f>> : c \in BagToSet(sink[d]),
                                         f \in Undelivered} : d \in Ranks} :
     /\ f.dst = d
     /\ c.epoch = f.epoch + 1
     /\ c.uid[1] # f.src}

\* C23: an overtaking happens only without the end-of-epoch barrier, to a
\* record whose submitter had returned from its own shuffle_epoch_end(k)
\* and over a late record whose rank has not finished its epoch-k flush;
\* and such an execution is reachable (C23_Witness).
C23_OvertakingWithoutBarrier ==
  \A o \in Overtakings :
    /\ ~env.paranoid_barrier
    /\ Ended(o[2].uid[1], o[3].epoch)
    /\ ~Ended(o[3].src, o[3].epoch)

\* without the barrier, a rank has the epoch-1 record of one rank in its
\* sink while the epoch-0 record another rank sent it is still undelivered
C23_Witness ==
  /\ ~env.paranoid_barrier
  /\ \E o \in Overtakings : o[2].epoch = 1 /\ o[3].epoch = 0
                            /\ o[3].src # o[1]


\* The ports local rank q is to probe, in order: min_port + (q mod range)
\* + j * local_size, as long as they are <= max_port.
ExpectedProbes(q) ==
  LET first == uri.min_port + (q % (1 + uri.max_port - uri.min_port))
      count == ((uri.max_port - first) \div uri.size) + 1
  IN  [j \in 1..count |-> first + (j - 1) * uri.size]

Called == {q \in LocalRanks : uri.st[q].pc \notin {"start", "abort: socket"}}

\* C24: local rank q probes the ports min_port + (q mod range) +
\* j*local_size that are <= max_port, in increasing order, and stops at
\* the first that binds, which it returns and which is in [min_port,
\* max_port]; it uses an ephemeral port only when every probe has failed;
\* it never returns port 0, and aborts with "no free ports" exactly when
\* the probes and the fallback have all failed.
C24_PortSelection ==
  \A q \in Called :
    LET st == uri.st[q]
        n  == Len(st.probed)
        E  == ExpectedProbes(q)
    IN  PortRangeCheck(uri.min_port, uri.max_port) = None =>
          /\ n <= Len(E) /\ st.probed = SubSeq(E, 1, n)
          /\ \A i \in 1..(n - 1) : st.probed[i] \notin st.free
          /\ \A i \in 1..n :
               uri.min_port <= st.probed[i] /\ st.probed[i] <= uri.max_port
          /\ st.how = "range" <=> (n > 0 /\ st.probed[n] \in st.free)
          /\ st.how = "range" =>
               /\ st.pc = "done" /\ st.port = st.probed[n]
               /\ uri.min_port <= st.port /\ st.port <= uri.max_port
          /\ st.how = "ephemeral" =>
               /\ st.pc = "done" /\ st.port = st.eph /\ st.probed = E
               /\ \A i \in 1..n : st.probed[i] \notin st.free
          /\ st.pc = "done" => st.port # 0 /\ st.how # None
          /\ st.pc = "abort: no free ports" <=>
               (st.probed = E /\ st.eph = 0
                  /\ \A i \in 1..n : st.probed[i] \notin st.free)

\* a rank has stopped at its second probe, another has gone through all
\* its probes and taken an ephemeral port, and a third has aborted
C24_Witness ==
  /\ \E q \in Called : uri.st[q].how = "range" /\ Len(uri.st[q].probed) = 2
  /\ \E q \in Called : uri.st[q].how = "ephemeral"
                       /\ Len(uri.st[q].probed) >= 1
  /\ \E q \in Called : uri.st[q].pc = "abort: no free ports"


\* The ports local rank q has probed.
ProbedPorts(q) == {uri.st[q].probed[i] : i \in 1..Len(uri.st[q].probed)}

\* C25, as stated: for every accepted port range and every node-local
\* size, also when the range holds fewer ports than there are local ranks,
\* two distinct local ranks probe disjoint sets of ports, and the ports
\* they return from the configured range are distinct.
C25_LocalRanksPortsDistinct ==
  \A q1, q2 \in Called :
    q1 # q2 =>
      /\ ProbedPorts(q1) \cap ProbedPorts(q2) = {}
      /\ (uri.st[q1].how = "range" /\ uri.st[q2].how = "range") =>
           uri.st[q1].port # uri.st[q2].port


\* clamp(n, 0, 8) of the configured radix, 0 if none is configured
ClampedRadix ==
  IF env.Recv_radix = NoEnv THEN 0
  ELSE IF env.Recv_radix[1] < 0 THEN 0
  ELSE IF env.Recv_radix[1] > 8 THEN 8
  ELSE env.Recv_radix[1]

\* bit i (0..31) of an unsigned int
BitOf(w, i) ==
  IF i < 16 THEN (w.lo \div Pow2(i)) % 2 ELSE (w.hi \div Pow2(i - 16)) % 2

\* C26: for every configured radix n (absent, negative, 0, 1..8, above 8),
\* with r = clamp(n, 0, 8): receiver_rate is 2^r, in 1..256; receiver_mask
\* is all ones with exactly the low r bits cleared; is_receiver is
\* ((my_rank & receiver_mask) == my_rank), that is, my_rank is a multiple
\* of 2^r; and shuffle_is_everyone_receiver is true iff r = 0.
C26_ReceiverRadix ==
  \A rank \in Ranks :
    LET ctx == sctx[rank]
        r   == ClampedRadix
    IN  /\ ctx.receiver_rate = Pow2(r)
        /\ 1 <= ctx.receiver_rate /\ ctx.receiver_rate <= 256
        /\ \A i \in 0..31 : BitOf(ctx.receiver_mask, i) = IF i < r THEN 0 ELSE 1
        /\ ctx.is_receiver <=> IntAndMask(rank, ctx.receiver_mask) = rank
        /\ ctx.is_receiver <=> rank % Pow2(r) = 0
        /\ shuffle_is_everyone_receiver(ctx) <=> r = 0

\* a radix above 8 has been clamped: 256 senders per receiver, rank 0 the
\* receiver of a world of four, and a record has been routed to it
C26_Witness ==
  /\ env.Recv_radix = <<MAX_RADIX + 1>>
  /\ env.comm_sz = 4
  /\ sctx[3].receiver_rate = 256
  /\ sctx[0].is_receiver /\ ~sctx[3].is_receiver
  /\ \E c \in routed : c.rank = 3 /\ c.dst = 0

=============================================================================
